---- MODULE Spec2Model ----
(***************************************************************************)
(* hack/run_test_job_balance.py of envd: the CI helper that scans the e2e  *)
(* test files, keeps the files of one job (position mod ci_total ==        *)
(* ci_index), and runs ginkgo focused on them.                             *)
(*                                                                         *)
(* Strings the script computes on (paths, argv words, numbers in messages  *)
(* and file names) are sequences of one-character strings, so globbing,    *)
(* endswith, int(), str() and sorted() are computed character by character.*)
(* Fixed texts nothing is computed on (exception types, command names) are *)
(* plain strings.                                                          *)
(***************************************************************************)
EXTENDS Integers, Sequences, FiniteSets, TLC

\* ------------------------------------------------------------------ bounds
\* argv words are the decimal numbers 0..MaxArg, "-1" and "x"
MaxArg == 2
\* at most MaxDisk files exist under the scanned tree
MaxDisk == 5
\* the test runner's return code is in -MaxRc..MaxRc
MaxRc == 1

\* The script instances that may be launched side by side.
Procs == {1, 2}

\* --------------------------------------------------------------- characters
\* Printable ASCII in code point order: 32..95, then 97..126.
AsciiLow ==
    << " ", "!", "\"", "#", "$", "%", "&", "'", "(", ")", "*", "+", ",", "-", ".", "/",
       "0", "1", "2", "3", "4", "5", "6", "7", "8", "9", ":", ";", "<", "=", ">", "?",
       "@", "A", "B", "C", "D", "E", "F", "G", "H", "I", "J", "K", "L", "M", "N", "O",
       "P", "Q", "R", "S", "T", "U", "V", "W", "X", "Y", "Z", "[", "\\", "]", "^", "_" >>

AsciiHigh ==
    << "a", "b", "c", "d", "e", "f", "g", "h", "i", "j", "k", "l", "m", "n", "o",
       "p", "q", "r", "s", "t", "u", "v", "w", "x", "y", "z", "{", "|", "}", "~" >>

\* ord(c) of Python, for the characters above and the newline.
OrdTable ==
    [c \in {AsciiLow[i] : i \in 1..Len(AsciiLow)}
            \cup {AsciiHigh[i] : i \in 1..Len(AsciiHigh)} \cup {"\n"} |->
        IF c = "\n" THEN 10
        ELSE IF \E i \in 1..Len(AsciiLow) : AsciiLow[i] = c
             THEN 31 + (CHOOSE i \in 1..Len(AsciiLow) : AsciiLow[i] = c)
             ELSE 96 + (CHOOSE i \in 1..Len(AsciiHigh) : AsciiHigh[i] = c)]

Ord(c) == OrdTable[c]

Digits == <<"0", "1", "2", "3", "4", "5", "6", "7", "8", "9">>

IsDigit(c) == \E d \in 1..10 : Digits[d] = c

DigitValue(c) == (CHOOSE d \in 1..10 : Digits[d] = c) - 1

\* --------------------------------------------------------- str operations
\* a < b of two Python str: code point by code point, a proper prefix first.
RECURSIVE StrLess(_, _)
StrLess(a, b) ==
    IF b = <<>> THEN FALSE
    ELSE IF a = <<>> THEN TRUE
    ELSE IF Head(a) = Head(b) THEN StrLess(Tail(a), Tail(b))
    ELSE Ord(Head(a)) < Ord(Head(b))

\* s.endswith(suffix)
EndsWith(s, suffix) ==
    /\ Len(suffix) <= Len(s)
    /\ SubSeq(s, Len(s) - Len(suffix) + 1, Len(s)) = suffix

\* str(n) of a non-negative int n: its decimal digits.
RECURSIVE NatToStr(_)
NatToStr(n) ==
    IF n < 10 THEN <<Digits[n + 1]>>
    ELSE NatToStr(n \div 10) \o <<Digits[(n % 10) + 1]>>

\* str(n), as the f-strings of lines 129, 138 and 160 format an int.
IntToStr(n) == IF n < 0 THEN <<"-">> \o NatToStr(-n) ELSE NatToStr(n)

RECURSIVE DigitsToNat(_, _)
DigitsToNat(s, acc) ==
    IF s = <<>> THEN acc
    ELSE DigitsToNat(Tail(s), 10 * acc + DigitValue(Head(s)))

\* Characters are one-character strings of code points 0 to 255, the range a
\* string of this module can hold. The whitespace among them that has no escape
\* in a string: vertical tab (0x0B), the separators FS, GS, RS, US (0x1C-0x1F),
\* next line (0x85) and no-break space (0xA0).
VT == ""
FS == ""
GS == ""
RS == ""
US == ""
NEL == ""
NBSP == " "

\* The whitespace of str.strip(): the characters for which str.isspace() holds.
IsSpace(c) ==
    c \in {" ", "\t", "\n", "\r", "\f", VT, FS, GS, RS, US, NEL, NBSP}

\* The whitespace int() skips around a literal: that of str.isspace() without
\* the four separators, which int() leaves in place and then rejects.
IsIntSpace(c) == c \in {" ", "\t", "\n", "\r", "\f", VT, NEL, NBSP}

RECURSIVE LStrip(_)
LStrip(s) == IF s /= <<>> /\ IsSpace(Head(s)) THEN LStrip(Tail(s)) ELSE s

RECURSIVE RStrip(_)
RStrip(s) ==
    IF s /= <<>> /\ IsSpace(s[Len(s)]) THEN RStrip(SubSeq(s, 1, Len(s) - 1)) ELSE s

\* The digits of an int literal: decimal digits, with single underscores allowed
\* between two digits and nowhere else.
IsIntBody(body) ==
    /\ body /= <<>>
    /\ IsDigit(body[1])
    /\ IsDigit(body[Len(body)])
    /\ \A k \in 1..Len(body) :
           \/ IsDigit(body[k])
           \/ body[k] = "_" /\ IsDigit(body[k - 1]) /\ IsDigit(body[k + 1])

\* s without the whitespace int() skips at both ends.
IntStrip(s) ==
    LET kept == {k \in 1..Len(s) : ~IsIntSpace(s[k])}
    IN  IF kept = {} THEN <<>>
        ELSE SubSeq(s, CHOOSE k \in kept : \A m \in kept : k <= m,
                       CHOOSE k \in kept : \A m \in kept : m <= k)

\* int(s) of lines 155-156: surrounding whitespace is dropped, then an optional
\* sign, then the digits. ok is FALSE where int() raises ValueError.
ParseInt(s) ==
    LET word == IntStrip(s)
        signed == word /= <<>> /\ Head(word) \in {"-", "+"}
        body == IF signed THEN Tail(word) ELSE word
        magnitude == DigitsToNat(SelectSeq(body, IsDigit), 0)
    IN  IF IsIntBody(body)
        THEN [ok |-> TRUE,
              val |-> IF Head(word) = "-" THEN 0 - magnitude ELSE magnitude]
        ELSE [ok |-> FALSE, val |-> 0]

\* .strip().rstrip() of the output of a metadata command (lines 39-41 and alike).
StripOutput(raw) == RStrip(RStrip(LStrip(raw)))

\* ------------------------------------------------------------------ paths
Slash == "/"

\* os.path.join of the components of a relative path.
RECURSIVE JoinPath(_)
JoinPath(comps) ==
    IF Len(comps) = 1 THEN comps[1]
    ELSE comps[1] \o <<Slash>> \o JoinPath(Tail(comps))

\* The components of a path: path.split("/").
RECURSIVE SplitPath(_)
SplitPath(path) ==
    IF \A k \in 1..Len(path) : path[k] /= Slash THEN <<path>>
    ELSE LET k == CHOOSE j \in 1..Len(path) :
                      path[j] = Slash /\ \A m \in 1..(j - 1) : path[m] /= Slash
         IN  <<SubSeq(path, 1, k - 1)>> \o SplitPath(SubSeq(path, k + 1, Len(path)))

\* line 29
EXTRACT_GLOB_PATH ==
    <<"e", "2", "e", "/", "*", "*", "/", "*", ".", "g", "o">>

\* line 30
EXCLUDE_GLOB_PATH ==
    <<"e", "2", "e", "/", "*", "/", "d", "o", "c", "s", "/", "*", ".", "g", "o">>

\* the literals of lines 92 and 93
SUITE_TEST_SUFFIX ==
    <<"s", "u", "i", "t", "e", "_", "t", "e", "s", "t", ".", "g", "o">>

E2E_HELPER_SUFFIX ==
    <<"e", "2", "e", "_", "h", "e", "l", "p", "e", "r", ".", "g", "o">>

\* ------------------------------------------------------------- glob.glob
\* glob.has_magic, for the one magic character the two patterns use
HasMagic(comp) == \E k \in 1..Len(comp) : comp[k] = "*"

\* glob._isrecursive
IsRecursive(comp) == comp = <<"*", "*">>

\* glob._ishidden
IsHidden(name) == name /= <<>> /\ Head(name) = "."

\* fnmatch.fnmatch(name, pat) on POSIX for patterns of literals and "*"
RECURSIVE FnMatch(_, _)
FnMatch(name, pat) ==
    IF pat = <<>> THEN name = <<>>
    ELSE IF Head(pat) = "*"
         THEN \/ FnMatch(name, Tail(pat))
              \/ name /= <<>> /\ FnMatch(Tail(name), pat)
    ELSE name /= <<>> /\ Head(name) = Head(pat) /\ FnMatch(Tail(name), Tail(pat))

\* One pattern component against one path component: glob0 compares a literal,
\* glob1 drops hidden names (unless the pattern is hidden) and fnmatch-es.
CompMatch(name, comp) ==
    IF HasMagic(comp)
    THEN (IsHidden(comp) \/ ~IsHidden(name)) /\ FnMatch(name, comp)
    ELSE name = comp

\* os.lstat(path) succeeds: every directory above the path can be searched.
CanStat(comps, nosearch) ==
    \A n \in 1..(Len(comps) - 1) : JoinPath(SubSeq(comps, 1, n)) \notin nosearch

\* os.scandir(dir) succeeds: the directory can be read and every directory
\* above it searched. The working directory (no components) always can.
CanList(comps, noread, nosearch) ==
    \/ comps = <<>>
    \/ JoinPath(comps) \notin noread /\ CanStat(comps, nosearch)

\* glob._iglob below the directory dir: the components of a pattern against
\* those of a path. "**" (recursive=True, _glob2/_rlistdir) stands for zero or
\* more directories, none of them hidden, each found by listing the one above
\* it; a component with "*" is found by listing the directory (_glob1), a
\* literal one by lstat (_glob0, _lexists). A listing or an lstat that fails
\* (OSError, caught inside glob) finds nothing.
RECURSIVE GlobWalk(_, _, _, _, _)
GlobWalk(dir, names, comps, noread, nosearch) ==
    IF comps = <<>> THEN names = <<>>
    ELSE IF IsRecursive(Head(comps))
         THEN \/ GlobWalk(dir, names, Tail(comps), noread, nosearch)
              \/ /\ names /= <<>>
                 /\ ~IsHidden(Head(names))
                 /\ CanList(dir, noread, nosearch)
                 /\ GlobWalk(Append(dir, Head(names)), Tail(names), comps,
                             noread, nosearch)
    ELSE /\ names /= <<>>
         /\ CompMatch(Head(names), Head(comps))
         /\ IF HasMagic(Head(comps))
            THEN CanList(dir, noread, nosearch)
            ELSE CanStat(Append(dir, Head(names)), nosearch)
         /\ GlobWalk(Append(dir, Head(names)), Tail(names), Tail(comps),
                     noread, nosearch)

\* The same with every directory accessible: whether the path matches the
\* pattern.
GlobMatch(names, comps) == GlobWalk(<<>>, names, comps, {}, {})

\* What exists on disk: the files of the tree and the directories above them.
Entries(tree) ==
    UNION {{JoinPath(SubSeq(SplitPath(f), 1, n)) : n \in 1..Len(SplitPath(f))} :
              f \in tree}

\* The directories of the tree.
Dirs(tree) == Entries(tree) \ tree

\* glob.glob(pattern, recursive=True) in the working directory, noread being
\* the directories without read permission and nosearch those without search
\* permission. Nothing is raised: the scan goes on without what it cannot get
\* at.
Glob(pattern, tree, noread, nosearch) ==
    {e \in Entries(tree) :
        GlobWalk(<<>>, SplitPath(e), SplitPath(pattern), noread, nosearch)}

\* The directories the recursive walk of e2e/**/*.go does not get listed: those
\* it cannot list and those below them.
Unlisted(tree, noread, nosearch) ==
    {d \in Dirs(tree) :
        \E n \in 1..Len(SplitPath(d)) :
            ~CanList(SubSeq(SplitPath(d), 1, n), noread, nosearch)}

\* mutant: the docs files are not subtracted
ExtractSetKeepsDocs(tree, noread, nosearch) ==
    {file \in Glob(EXTRACT_GLOB_PATH, tree, noread, nosearch) :
        /\ ~EndsWith(file, SUITE_TEST_SUFFIX)
        /\ ~EndsWith(file, E2E_HELPER_SUFFIX)}

\* mutant: glob without recursive=True, where "**" is one directory
ExtractSetNotRecursive(tree, noread, nosearch) ==
    LET pattern == <<"e", "2", "e", "/", "*", "/", "*", ".", "g", "o">>
        test_files == Glob(pattern, tree, noread, nosearch)
                          \ Glob(EXCLUDE_GLOB_PATH, tree, noread, nosearch)
    IN  {file \in test_files :
            /\ ~EndsWith(file, SUITE_TEST_SUFFIX)
            /\ ~EndsWith(file, E2E_HELPER_SUFFIX)}

\* lines 87-94: the set the returned list holds
ExtractSet(tree, noread, nosearch) ==
    LET test_files == Glob(EXTRACT_GLOB_PATH, tree, noread, nosearch)
                          \ Glob(EXCLUDE_GLOB_PATH, tree, noread, nosearch)
    IN  {file \in test_files :
            /\ ~EndsWith(file, SUITE_TEST_SUFFIX)
            /\ ~EndsWith(file, E2E_HELPER_SUFFIX)}

\* The orders a list(set(...)) may come in: every arrangement of the set.
RECURSIVE Orders(_)
Orders(S) ==
    IF S = {} THEN {<<>>}
    ELSE UNION {{<<x>> \o rest : rest \in Orders(S \ {x})} : x \in S}

\* lines 81-94: the lists extract_files may return
ExtractFiles(tree, noread, nosearch) == Orders(ExtractSet(tree, noread, nosearch))

\* The permissions one scan may meet, as pairs <<noread, nosearch>>. A
\* permission is taken away only from a directory below fully accessible ones,
\* and search permission only from a directory that has subdirectories: any
\* other refusal leaves the list of extract_files as it is.
Refusals(tree) ==
    LET free(d, r) ==
            \A n \in 1..(Len(SplitPath(d)) - 1) :
                JoinPath(SubSeq(SplitPath(d), 1, n)) \notin (r[1] \cup r[2])
        above(d) == \E e \in Dirs(tree) : Len(e) > Len(d)
                        /\ SubSeq(e, 1, Len(d) + 1) = d \o <<Slash>>
    IN  {r \in (SUBSET Dirs(tree)) \X (SUBSET Dirs(tree)) :
            /\ \A d \in r[1] \cup r[2] : free(d, r)
            /\ \A d \in r[2] : above(d)}

\* --------------------------------------------------------------- sorted()
RECURSIVE InsertSorted(_, _)
InsertSorted(x, s) ==
    IF s = <<>> THEN <<x>>
    ELSE IF StrLess(x, Head(s)) THEN <<x>> \o s
    ELSE <<Head(s)>> \o InsertSorted(x, Tail(s))

\* mutant: the list is left in the order of the scan
SortedNot(s) == s

\* line 163: sorted(test_files)
RECURSIVE Sorted(_)
Sorted(s) ==
    IF s = <<>> THEN <<>>
    ELSE InsertSorted(s[Len(s)], Sorted(SubSeq(s, 1, Len(s) - 1)))

\* ------------------------------------------------------------- run_test
RECURSIVE DescRunFrom(_, _, _, _)
DescRunFrom(files, i, ci_index, ci_total) ==
    IF i >= Len(files) THEN <<>>
    ELSE (IF i % ci_total = ci_index THEN <<files[i + 1]>> ELSE <<>>)
             \o DescRunFrom(files, i + 1, ci_index, ci_total)

\* mutant: the selection starts at position 1
DescRunOffByOne(files, ci_index, ci_total) == DescRunFrom(files, 1, ci_index, ci_total)

\* line 118: [files[i] for i in range(len(files)) if i % ci_total == ci_index]
DescRun(files, ci_index, ci_total) == DescRunFrom(files, 0, ci_index, ci_total)

\* line 121: "".join(f'--focus-file "{decs}" ' ...), as the words of the command
FOCUS_FILE == <<"-", "-", "f", "o", "c", "u", "s", "-", "f", "i", "l", "e">>

\* mutant: the last file gets no filter
RECURSIVE DescRegexDropsLast(_)
DescRegexDropsLast(desc_run) ==
    IF Len(desc_run) <= 1 THEN <<>>
    ELSE <<FOCUS_FILE, Head(desc_run)>> \o DescRegexDropsLast(Tail(desc_run))

RECURSIVE DescRegex(_)
DescRegex(desc_run) ==
    IF desc_run = <<>> THEN <<>>
    ELSE <<FOCUS_FILE, Head(desc_run)>> \o DescRegex(Tail(desc_run))

\* mutant: one coverage file name for every job
CoverProfileShared(ci_index) ==
    <<"e", "2", "e", "-", "c", "o", "v", "e", "r", "a", "g", "e", ".", "o", "u", "t">>

\* line 129: e2e-{ci_index}-coverage.out
CoverProfile(ci_index) ==
    <<"e", "2", "e", "-">> \o IntToStr(ci_index)
        \o <<"-", "c", "o", "v", "e", "r", "a", "g", "e", ".", "o", "u", "t">>

\* lines 122-130: the ginkgo command, by its parts
BuildCmd(desc_run, ci_index, mode, m) ==
    [program      |-> "ginkgo run",
     version      |-> m.VERSION,
     buildDate    |-> m.BUILD_DATE,
     gitCommit    |-> m.GIT_COMMIT,
     gitTreeState |-> m.GIT_TREE_STATE,
     gitTag       |-> m.GIT_TAG,
     ghaBuildMode |-> mode,
     coverprofile |-> CoverProfile(ci_index),
     focus        |-> DescRegex(desc_run)]

NoCmd ==
    [program |-> "", version |-> <<>>, buildDate |-> <<>>, gitCommit |-> <<>>,
     gitTreeState |-> <<>>, gitTag |-> <<>>, ghaBuildMode |-> "",
     coverprofile |-> <<>>, focus |-> <<>>]

FALSE_TEXT == <<"f", "a", "l", "s", "e">>

\* mutant: ENVD_ANALYTICS is not set
ProcEnvTagOnly(env, git_tag) ==
    [v \in DOMAIN env \cup {"GIT_LATEST_TAG"} |->
        IF v = "GIT_LATEST_TAG" THEN git_tag ELSE env[v]]

\* lines 132-134: a copy of os.environ with the two variables set
ProcEnv(env, git_tag) ==
    [v \in DOMAIN env \cup {"GIT_LATEST_TAG", "ENVD_ANALYTICS"} |->
        IF v = "GIT_LATEST_TAG" THEN git_tag
        ELSE IF v = "ENVD_ANALYTICS" THEN FALSE_TEXT
        ELSE env[v]]

\* line 157
Mode(export_cache) == IF export_cache THEN "safe" ELSE "import"

\* mutant: the test of a negative index is missing
BadArgumentNoNegative(ci_index, ci_total) == ci_index >= ci_total \/ ci_total <= 0

\* line 158: the condition under which main raises "bad argument"
BadArgument(ci_index, ci_total) ==
    ci_index >= ci_total \/ ci_index < 0 \/ ci_total <= 0

\* ------------------------------------------------------------ exceptions
NoErr == [type |-> "none", text |-> "", nums |-> <<>>]

\* subprocess.check_output on a non-zero exit (lines 34-78)
CalledProcessError(command) ==
    [type |-> "CalledProcessError", text |-> command, nums |-> <<>>]

\* int() of a word that is no number (lines 155-156)
ValueError == [type |-> "ValueError", text |-> "invalid literal for int()", nums |-> <<>>]

\* lines 159-161: the numbers are formatted into the message
BadArgumentError(ci_index, ci_total) ==
    [type |-> "RuntimeError", text |-> "bad argument ci_index and ci_total",
     nums |-> <<IntToStr(ci_index), IntToStr(ci_total)>>]

\* mutant: the message does not name the return code
TestFailedErrorNoCode(code) ==
    [type |-> "RuntimeError", text |-> "ginkgo test failed", nums |-> <<>>]

\* line 138
TestFailedError(code) ==
    [type |-> "RuntimeError", text |-> "ginkgo test failed: return code",
     nums |-> <<IntToStr(code)>>]

\* ------------------------------------------------------- the environment
\* The five commands run while the module is loaded (lines 34-78), in order.
MetaCommands ==
    <<"git describe --match", "date -u", "git rev-parse HEAD", "git rev-parse HEAD",
      "git describe --tags">>

GINKGO == "ginkgo run"

\* What the commands print: a text followed by a newline.
RawOutputs ==
    << <<"v", "1", "\n">>, <<"d", "\n">>, <<"c", "\n">>, <<"c", "\n">>,
       <<"v", "2", "\n">> >>

NoMeta ==
    [VERSION |-> <<>>, BUILD_DATE |-> <<>>, GIT_COMMIT |-> <<>>,
     GIT_TREE_STATE |-> <<>>, GIT_TAG |-> <<>>]

\* lines 34-78: the module's globals after the first n commands succeeded
MetaAfter(n) ==
    LET out(k) == IF k <= n THEN StripOutput(RawOutputs[k]) ELSE <<>>
    IN  [VERSION |-> out(1), BUILD_DATE |-> out(2), GIT_COMMIT |-> out(3),
         GIT_TREE_STATE |-> out(4), GIT_TAG |-> out(5)]

E2E == <<"e", "2", "e">>

GoFile(dirs, stem) == JoinPath(dirs \o <<stem \o <<".", "g", "o">>>>)

\* The files that may exist in the working directory.
Universe ==
    { GoFile(<<E2E>>, <<"a">>),
      GoFile(<<E2E>>, <<"b">>),
      GoFile(<<E2E, <<"v">>>>, <<"c">>),
      GoFile(<<E2E, <<"v">>>>, <<"d">>),
      GoFile(<<E2E, <<"v">>>>, <<"e">>),
      GoFile(<<E2E, <<"v">>, <<"d", "o", "c", "s">>>>, <<"d">>),
      GoFile(<<E2E, <<"v">>>>, <<"v", "_", "s", "u", "i", "t", "e", "_", "t", "e", "s", "t">>),
      GoFile(<<E2E, <<"v">>>>, <<"s", "u", "i", "t", "e", "_", "t", "e", "s", "t">>),
      GoFile(<<E2E>>, <<"e", "2", "e", "_", "h", "e", "l", "p", "e", "r">>),
      JoinPath(<<E2E, <<"a", ".", "m", "d">>>>) }

Trees == {t \in SUBSET Universe : Cardinality(t) <= MaxDisk}

\* The words given for ci_index and ci_total: -1, 0..MaxArg, and no number.
ArgWords == {IntToStr(n) : n \in (0 - 1)..MaxArg} \cup {<<"x">>}

\* The command lines: both positional arguments given (argparse exits by itself
\* on any other), --export-cache given or not.
Args == [ci_index : ArgWords, ci_total : ArgWords, export_cache : BOOLEAN]

BIN == <<"/", "b", "i", "n">>

\* os.environ at the start: PATH, and ENVD_ANALYTICS switched on; GIT_LATEST_TAG
\* is not set.
Environs ==
    { [v \in {"PATH", "ENVD_ANALYTICS"} |->
          IF v = "PATH" THEN BIN ELSE <<"t", "r", "u", "e">>] }

\* ------------------------------------------------------------------ state
VARIABLES
    tree,         \* the files on disk (shared by the instances)
    coverage,     \* the files the children have written so far: [file, by]
    pc,           \* where each instance is
    argv,         \* its command line
    environ,      \* its os.environ
    meta,         \* its VERSION .. GIT_TAG globals
    children,     \* the child processes it has started, in order
    ci,           \* ci_index, ci_total and mode of main
    denied,       \* the directories its scan could not get listed
    test_files,   \* main's test_files
    cmd,          \* run_test's cmd
    proc_env,     \* run_test's proc_env
    returncode,   \* proc.returncode
    err           \* the exception that ended the instance

vars ==
    <<tree, coverage, pc, argv, environ, meta, children, ci, denied,
      test_files, cmd, proc_env, returncode, err>>

NoCi == [ci_index |-> 0, ci_total |-> 0, mode |-> ""]

NoArgs == [ci_index |-> <<>>, ci_total |-> <<>>, export_cache |-> FALSE]

NoEnv == [v \in {} |-> <<>>]

\* The state of the instances in `launched` before their first statement.
Launch(launched, args, envs) ==
    /\ coverage = {}
    /\ pc = [p \in Procs |-> IF p \in launched THEN "start" ELSE "absent"]
    /\ argv = [p \in Procs |-> IF p \in launched THEN args[p] ELSE NoArgs]
    /\ environ = [p \in Procs |-> IF p \in launched THEN envs[p] ELSE NoEnv]
    /\ meta = [p \in Procs |-> NoMeta]
    /\ children = [p \in Procs |-> <<>>]
    /\ ci = [p \in Procs |-> NoCi]
    /\ denied = [p \in Procs |-> {}]
    /\ test_files = [p \in Procs |-> <<>>]
    /\ cmd = [p \in Procs |-> NoCmd]
    /\ proc_env = [p \in Procs |-> NoEnv]
    /\ returncode = [p \in Procs |-> 0]
    /\ err = [p \in Procs |-> NoErr]

\* One instance, any command line, any tree.
Init ==
    /\ tree \in Trees
    /\ \E a \in Args, e \in Environs :
           Launch({1}, [p \in Procs |-> a], [p \in Procs |-> e])

\* ----------------------------------------------------------------- steps
\* raise: the exception ends the instance
Fail(p, e) ==
    /\ pc' = [pc EXCEPT ![p] = "failed"]
    /\ err' = [err EXCEPT ![p] = e]

\* lines 34-78, one check_output at a time: the next of the five commands is
\* started and the instance waits for it
CheckOutput(p) ==
    /\ pc[p] = "start"
    /\ children' = [children EXCEPT ![p] = Append(@, MetaCommands[Len(@) + 1])]
    /\ pc' = [pc EXCEPT ![p] = "waiting"]
    /\ UNCHANGED <<tree, coverage, argv, environ, meta, ci, denied, test_files,
                   cmd, proc_env, returncode, err>>

\* lines 34-78: the command waited for exits 0 and its stripped output becomes
\* the global; the module is loaded after the fifth
LoadModule(p) ==
    /\ pc[p] = "waiting"
    /\ meta' = [meta EXCEPT ![p] = MetaAfter(Len(children[p]))]
    /\ pc' = [pc EXCEPT ![p] =
                 IF Len(children[p]) = Len(MetaCommands) THEN "loaded" ELSE "start"]
    /\ UNCHANGED <<tree, coverage, argv, environ, children, ci, denied,
                   test_files, cmd, proc_env, returncode, err>>

\* lines 34-78: the command waited for exits non-zero, check_output raises and
\* the import ends there
LoadModuleFails(p) ==
    /\ pc[p] = "waiting"
    /\ Fail(p, CalledProcessError(MetaCommands[Len(children[p])]))
    /\ UNCHANGED <<tree, coverage, argv, environ, meta, children, ci, denied,
                   test_files, cmd, proc_env, returncode>>

\* lines 155-156: int() raises
MainValueError(p) ==
    /\ pc[p] = "loaded"
    /\ ~ParseInt(argv[p].ci_index).ok \/ ~ParseInt(argv[p].ci_total).ok
    /\ Fail(p, ValueError)
    /\ UNCHANGED <<tree, coverage, argv, environ, meta, children, ci, denied,
                   test_files, cmd, proc_env, returncode>>

\* lines 155-157: both words are numbers; ci_index, ci_total and mode are set
MainParsed(p) ==
    /\ pc[p] = "loaded"
    /\ ParseInt(argv[p].ci_index).ok /\ ParseInt(argv[p].ci_total).ok
    /\ ci' = [ci EXCEPT ![p] = [ci_index |-> ParseInt(argv[p].ci_index).val,
                                ci_total |-> ParseInt(argv[p].ci_total).val,
                                mode |-> Mode(argv[p].export_cache)]]
    /\ pc' = [pc EXCEPT ![p] = "parsed"]
    /\ UNCHANGED <<tree, coverage, argv, environ, meta, children, denied,
                   test_files, cmd, proc_env, returncode, err>>

\* lines 158-161: the numbers are out of range
MainBadArgument(p) ==
    /\ pc[p] = "parsed"
    /\ BadArgument(ci[p].ci_index, ci[p].ci_total)
    /\ Fail(p, BadArgumentError(ci[p].ci_index, ci[p].ci_total))
    /\ UNCHANGED <<tree, coverage, argv, environ, meta, children, ci, denied,
                   test_files, cmd, proc_env, returncode>>

\* lines 158, 162: the numbers pass and test_files = extract_files(), under the
\* permissions the scan meets
MainExtract(p) ==
    /\ pc[p] = "parsed"
    /\ ~BadArgument(ci[p].ci_index, ci[p].ci_total)
    /\ \E r \in Refusals(tree) :
           /\ denied' = [denied EXCEPT ![p] = Unlisted(tree, r[1], r[2])]
           /\ \E files \in ExtractFiles(tree, r[1], r[2]) :
                  test_files' = [test_files EXCEPT ![p] = files]
    /\ pc' = [pc EXCEPT ![p] = "extracted"]
    /\ UNCHANGED <<tree, coverage, argv, environ, meta, children, ci, cmd,
                   proc_env, returncode, err>>

\* lines 163-173: test_files = sorted(test_files), and the workload is logged
MainSort(p) ==
    /\ pc[p] = "extracted"
    /\ test_files' = [test_files EXCEPT ![p] = Sorted(test_files[p])]
    /\ pc' = [pc EXCEPT ![p] = "sorted"]
    /\ UNCHANGED <<tree, coverage, argv, environ, meta, children, ci, denied,
                   cmd, proc_env, returncode, err>>

\* lines 174, 110-135: run_test up to the start of the child
RunTest(p) ==
    /\ pc[p] = "sorted"
    /\ LET desc_run == DescRun(test_files[p], ci[p].ci_index, ci[p].ci_total)
       IN  cmd' = [cmd EXCEPT ![p] =
                      BuildCmd(desc_run, ci[p].ci_index, ci[p].mode, meta[p])]
    /\ proc_env' = [proc_env EXCEPT ![p] = ProcEnv(environ[p], meta[p].GIT_TAG)]
    /\ children' = [children EXCEPT ![p] = Append(@, GINKGO)]
    /\ pc' = [pc EXCEPT ![p] = "running"]
    /\ UNCHANGED <<tree, coverage, argv, environ, meta, ci, denied, test_files,
                   returncode, err>>

\* lines 122-130: the files the command tells the child to write
Outputs(c) == {c.coverprofile}

\* The running child writes a file its command names. It may also end without
\* having written it.
ChildWrites(p) ==
    /\ pc[p] = "running"
    /\ \E file \in Outputs(cmd[p]) :
           /\ [file |-> file, by |-> p] \notin coverage
           /\ coverage' = coverage \cup {[file |-> file, by |-> p]}
    /\ UNCHANGED <<tree, pc, argv, environ, meta, children, ci, denied,
                   test_files, cmd, proc_env, returncode, err>>

\* lines 135-137: the child exits 0 and run_test returns
TestPassed(p) ==
    /\ pc[p] = "running"
    /\ returncode' = [returncode EXCEPT ![p] = 0]
    /\ pc' = [pc EXCEPT ![p] = "done"]
    /\ UNCHANGED <<tree, coverage, argv, environ, meta, children, ci, denied,
                   test_files, cmd, proc_env, err>>

\* lines 135-138: the child ends with a return code other than 0, its exit
\* status or, negated, the signal that killed it, and run_test raises
TestFailed(p) ==
    /\ pc[p] = "running"
    /\ \E code \in ((0 - MaxRc)..MaxRc) \ {0} :
           /\ returncode' = [returncode EXCEPT ![p] = code]
           /\ Fail(p, TestFailedError(code))
    /\ UNCHANGED <<tree, coverage, argv, environ, meta, children, ci, denied,
                   test_files, cmd, proc_env>>

Next ==
    \E p \in Procs :
        \/ CheckOutput(p)
        \/ LoadModule(p)
        \/ LoadModuleFails(p)
        \/ MainValueError(p)
        \/ MainBadArgument(p)
        \/ MainParsed(p)
        \/ MainExtract(p)
        \/ MainSort(p)
        \/ RunTest(p)
        \/ ChildWrites(p)
        \/ TestPassed(p)
        \/ TestFailed(p)

Spec == Init /\ [][Next]_vars

\* lines 177-178: the status the interpreter exits with once the instance has
\* ended: 1 after an uncaught exception, 0 otherwise
ExitStatus(p) == IF err[p].type = "none" THEN 0 ELSE 1

\* The index words of instances side by side: those of ArgWords, and 0 behind
\* a no-break space, which int() skips.
ParWords == ArgWords \cup {<<NBSP, "0">>}

\* Instances side by side on one tree: every instance is launched, all with the
\* same ci_total word, each with its own ci_index word.
ParTrees == {t \in Trees : t \subseteq {GoFile(<<E2E>>, <<"a">>), GoFile(<<E2E>>, <<"b">>)}}

InitPar ==
    /\ tree \in ParTrees
    /\ \E total \in ArgWords, index \in [Procs -> ParWords], e \in Environs :
           Launch(Procs,
                  [p \in Procs |-> [ci_index |-> index[p], ci_total |-> total,
                                    export_cache |-> FALSE]],
                  [p \in Procs |-> e])

SpecPar == InitPar /\ [][Next]_vars

\* ------------------------------------------------------- for the properties
Range(s) == {s[k] : k \in 1..Len(s)}

\* The instance has started the test runner.
Started(p) == pc[p] \in {"running", "done", "failed"} /\ cmd[p] /= NoCmd

\* The test runner of the instance has terminated.
Exited(p) == pc[p] \in {"done", "failed"} /\ cmd[p] /= NoCmd

\* The files the command is focused on: the word after each --focus-file.
FocusFiles(c) == [k \in 1..(Len(c.focus) \div 2) |-> c.focus[2 * k]]

\* The number of times a command was started.
Count(history, command) ==
    Cardinality({k \in 1..Len(history) : history[k] = command})

\* main has parsed both argv words: ci_index, ci_total and mode are set.
Parsed(p) == ci[p].mode /= ""

\* The arguments are invalid in the sense of the usage text: not
\* 0 <= ci_index < ci_total.
InvalidArgs(p) ==
    /\ Parsed(p)
    /\ (ci[p].ci_index < 0 \/ ci[p].ci_index >= ci[p].ci_total
            \/ ci[p].ci_total <= 0)

ValidArgs(p) ==
    Parsed(p) /\ 0 <= ci[p].ci_index /\ ci[p].ci_index < ci[p].ci_total

\* The globals of a loaded module: what the five commands print, without the
\* newline.
LoadedMeta ==
    [VERSION |-> <<"v", "1">>, BUILD_DATE |-> <<"d">>, GIT_COMMIT |-> <<"c">>,
     GIT_TREE_STATE |-> <<"c">>, GIT_TAG |-> <<"v", "2">>]

File_a == GoFile(<<E2E>>, <<"a">>)
File_b == GoFile(<<E2E>>, <<"b">>)
File_c == GoFile(<<E2E, <<"v">>>>, <<"c">>)
File_d == GoFile(<<E2E, <<"v">>>>, <<"d">>)
File_e == GoFile(<<E2E, <<"v">>>>, <<"e">>)
File_vsuite ==
    GoFile(<<E2E, <<"v">>>>, <<"v", "_", "s", "u", "i", "t", "e", "_", "t", "e", "s", "t">>)

\* The last component of a path.
BaseName(path) == SplitPath(path)[Len(SplitPath(path))]

SUITE_TEST_NAME == SUITE_TEST_SUFFIX
E2E_HELPER_NAME == E2E_HELPER_SUFFIX

\* ------------------------------------------------------------------- C1
\* The shards of index 0..T-1 of the list F are pairwise disjoint, their union
\* is the list, and together they hold each file once.
Partitioned(F, T) ==
    LET shard == [i \in 0..(T - 1) |-> DescRun(F, i, T)]
        files == [i \in 0..(T - 1) |-> Range(shard[i])]
    IN  /\ UNION {files[i] : i \in 0..(T - 1)} = Range(F)
        /\ \A i, j \in 0..(T - 1) : i /= j => files[i] \cap files[j] = {}
        /\ \A i \in 0..(T - 1) : Cardinality(files[i]) = Len(shard[i])
        /\ \A f \in Range(F) : Cardinality({i \in 0..(T - 1) : f \in files[i]}) = 1

\* The same of the empty list, which needs no state.
EmptyPartitioned == \A T \in 1..(MaxArg + 1) : Partitioned(<<>>, T)

\* C1: for the file list main hands to run_test in any instance and every
\* total T > 0, the shards of index 0..T-1 are pairwise disjoint, their union
\* is the list, and together they hold each file once.
C1_ShardsPartition ==
    /\ EmptyPartitioned
    /\ \A p \in Procs :
           (pc[p] \in {"sorted", "running"} /\ test_files[p] /= <<>>) =>
               \A T \in 1..(MaxArg + 1) : Partitioned(test_files[p], T)

\* An instance with three or more files to split over two jobs has started its
\* runner.
C1_Witness ==
    \E p \in Procs :
        Started(p) /\ Len(test_files[p]) >= 3 /\ ci[p].ci_total = 2

\* ------------------------------------------------------------------- C2
\* C2 as claimed: when the validation error is raised, no child process has been
\* started.
C2_NoChildBeforeValidation ==
    \A p \in Procs :
        (InvalidArgs(p) /\ err[p].type = "RuntimeError") => children[p] = <<>>

\* C2, amended: an instance with invalid arguments never scans the file tree and
\* never starts the test runner, and nothing of the two happens before the
\* arguments are parsed; when its validation error is raised, the five metadata
\* commands of the module's load, and only they, have been started.
C2_NoScanNoRunnerBeforeValidation ==
    \A p \in Procs :
        /\ (\/ pc[p] \in {"extracted", "sorted", "running", "done"}
            \/ test_files[p] /= <<>>
            \/ cmd[p] /= NoCmd
            \/ Count(children[p], GINKGO) /= 0) => ValidArgs(p)
        /\ pc[p] \in {"start", "waiting", "loaded"} => ~Parsed(p)
        /\ InvalidArgs(p) =>
               /\ pc[p] \in {"parsed", "failed"}
               /\ pc[p] = "failed" =>
                      /\ err[p].type = "RuntimeError"
                      /\ err[p].text = "bad argument ci_index and ci_total"
                      /\ err[p].nums =
                             <<IntToStr(ci[p].ci_index), IntToStr(ci[p].ci_total)>>
                      /\ children[p] = MetaCommands

\* An instance given ci_index = 2 and ci_total = 2 has failed validation.
C2_Witness ==
    \E p \in Procs :
        /\ argv[p].ci_index = <<"2">> /\ argv[p].ci_total = <<"2">>
        /\ pc[p] = "failed"
        /\ err[p].type = "RuntimeError"
        /\ err[p].nums = << <<"2">>, <<"2">> >>
        /\ Len(children[p]) = Len(MetaCommands)

\* ------------------------------------------------------------------- C3
\* C3: no file list of an instance, and so no focus of its command, holds a path
\* matching e2e/*/docs/*.go or a file named suite_test.go or e2e_helper.go.
C3_ExcludedNeverListed ==
    \A p \in Procs :
        \A f \in Range(test_files[p]) \cup Range(FocusFiles(cmd[p])) :
            /\ ~GlobMatch(SplitPath(f), SplitPath(EXCLUDE_GLOB_PATH))
            /\ BaseName(f) /= SUITE_TEST_NAME
            /\ BaseName(f) /= E2E_HELPER_NAME

\* extract_files has returned a non-empty list from a tree that holds a docs
\* file, a suite_test.go and an e2e_helper.go.
C3_Witness ==
    \E p \in Procs :
        /\ pc[p] = "extracted"
        /\ test_files[p] /= <<>>
        /\ \E f \in tree : GlobMatch(SplitPath(f), SplitPath(EXCLUDE_GLOB_PATH))
        /\ \E f \in tree : BaseName(f) = SUITE_TEST_NAME
        /\ \E f \in tree : BaseName(f) = E2E_HELPER_NAME

\* ------------------------------------------------------------------- C4
\* C4: once the test runner has terminated, the instance has raised a
\* RuntimeError exactly when the exit code is not 0, the message holds the exit
\* code, and the instance exits non-zero then; with exit code 0 it ends without
\* an error and exits 0.
C4_ErrorIffNonZeroExit ==
    \A p \in Procs :
        Exited(p) =>
            /\ (err[p].type = "RuntimeError") <=> (returncode[p] /= 0)
            /\ returncode[p] /= 0 =>
                   /\ pc[p] = "failed"
                   /\ err[p].nums = <<IntToStr(returncode[p])>>
                   /\ ExitStatus(p) /= 0
            /\ returncode[p] = 0 =>
                   /\ pc[p] = "done"
                   /\ err[p] = NoErr
                   /\ ExitStatus(p) = 0

\* The test runner has exited with code 1 and the message holds "1".
C4_Witness ==
    \E p \in Procs :
        /\ Exited(p)
        /\ returncode[p] = 1
        /\ err[p].type = "RuntimeError"
        /\ err[p].nums = << <<"1">> >>
        /\ ExitStatus(p) = 1

\* ------------------------------------------------------------------- C5
\* The number of files of S that sort before f.
Rank(f, S) == Cardinality({g \in S : StrLess(g, f)})

\* C5: the files a started runner is focused on are those of the set of files
\* that extract_files returned whose rank in the sorted set is ci_index modulo
\* ci_total, in increasing order, whatever order the scan listed them in. For the five
\* files a..e and two jobs, job 0 gets a, c, e and job 1 gets b, d.
C5_ShardOfTheSet ==
    \A p \in Procs :
        Started(p) =>
            LET S == Range(test_files[p])
                shard == FocusFiles(cmd[p])
            IN  /\ Range(shard) =
                       {f \in S : Rank(f, S) % ci[p].ci_total = ci[p].ci_index}
                /\ \A k \in 1..(Len(shard) - 1) : StrLess(shard[k], shard[k + 1])
                /\ (S = {File_a, File_b, File_c, File_d, File_e}
                        /\ ci[p].ci_total = 2) =>
                       /\ ci[p].ci_index = 0 => shard = <<File_a, File_c, File_e>>
                       /\ ci[p].ci_index = 1 => shard = <<File_b, File_d>>

\* Job 1 of 2 has started its runner on b and d of the five files.
C5_Witness ==
    \E p \in Procs :
        /\ Started(p)
        /\ Range(test_files[p]) = {File_a, File_b, File_c, File_d, File_e}
        /\ ci[p].ci_index = 1 /\ ci[p].ci_total = 2
        /\ FocusFiles(cmd[p]) = <<File_b, File_d>>

\* ------------------------------------------------------------------- C6
\* Everything an instance holds for itself.
InstanceState(p) ==
    <<pc[p], argv[p], environ[p], meta[p], children[p], ci[p], denied[p],
      test_files[p], cmd[p], proc_env[p], returncode[p], err[p]>>

\* The name e2e-<i>-coverage.out for an index of one digit.
CoverageName(i) ==
    <<"e", "2", "e", "-">> \o <<Digits[i + 1]>>
        \o <<"-", "c", "o", "v", "e", "r", "a", "g", "e", ".", "o", "u", "t">>

\* C6 (under SpecPar): under every interleaving, two files written by instances
\* with different ci_index values are different files; every file written is
\* the coverage file named after the writing instance's own valid index, and
\* nothing else is written: no step changes the file tree, removes or rewrites
\* a written file, or changes what another instance holds.
C6_DistinctCoverageFiles ==
    /\ [](\A w1, w2 \in coverage :
              (w1.by /= w2.by /\ ci[w1.by].ci_index /= ci[w2.by].ci_index)
                  => w1.file /= w2.file)
    /\ [](\A w \in coverage :
              /\ ValidArgs(w.by)
              /\ w.file = CoverageName(ci[w.by].ci_index))
    /\ [][/\ tree' = tree
          /\ coverage \subseteq coverage'
          /\ \A p, q \in Procs :
                 p /= q => \/ InstanceState(p)' = InstanceState(p)
                           \/ InstanceState(q)' = InstanceState(q)]_vars

\* Two instances with different indices, one given its index behind a no-break
\* space, have both written their coverage file.
C6_Witness ==
    \E w1, w2 \in coverage :
        /\ w1.by /= w2.by
        /\ argv[w1.by].ci_index = <<NBSP, "0">>
        /\ ci[w1.by].ci_index /= ci[w2.by].ci_index
        /\ pc[w1.by] = "done" /\ pc[w2.by] \in {"done", "failed"}

\* ------------------------------------------------------------------- C7
\* The runner discipline of C7: the runner is started at most once, only
\* after the arguments passed validation and all metadata commands succeeded, it
\* is the last child of the instance, and invalid arguments, a failed metadata
\* command and a non-zero exit of the runner each end the instance in an error.
SingleRunnerNoRetry(p) ==
    /\ Count(children[p], GINKGO) <= 1
    /\ Count(children[p], GINKGO) = 1 <=> Started(p)
    /\ Started(p) =>
           /\ ValidArgs(p)
           /\ children[p] = MetaCommands \o <<GINKGO>>
    /\ pc[p] = "done" => Started(p) /\ returncode[p] = 0 /\ err[p] = NoErr
    /\ (Exited(p) /\ returncode[p] /= 0) =>
           pc[p] = "failed" /\ err[p].type = "RuntimeError"
    /\ (pc[p] \notin {"absent", "start", "waiting"}
            /\ err[p].type /= "CalledProcessError") =>
           /\ meta[p] = LoadedMeta
           /\ SubSeq(children[p], 1, Len(MetaCommands)) = MetaCommands
    /\ pc[p] \in {"extracted", "sorted", "running", "done"} => ValidArgs(p)
    /\ InvalidArgs(p) => pc[p] \in {"parsed", "failed"}
    /\ pc[p] = "failed" <=> err[p] /= NoErr
    /\ err[p].type = "CalledProcessError" =>
           /\ ~Started(p)
           /\ children[p] /= <<>>
           /\ test_files[p] = <<>>

\* The path f lies below the directory d.
Below(f, d) == Len(f) > Len(d) /\ SubSeq(f, 1, Len(d) + 1) = d \o <<Slash>>

\* C7: the runner is started at most once and never retried, and no failure is
\* swallowed: invalid arguments, a failed child and a scan that could not list
\* a directory each end the instance in an error, so after such a scan the
\* runner is never started and the instance does not end normally.
C7_NoFailureSwallowed ==
    \A p \in Procs :
        /\ SingleRunnerNoRetry(p)
        /\ denied[p] /= {} => ~Started(p) /\ pc[p] /= "done"

\* ------------------------------------------------------------------- C8
\* C8: the environment of the test runner is os.environ with ENVD_ANALYTICS set
\* to "false" and GIT_LATEST_TAG set to the tag that git describe --tags
\* printed, every other variable as it is; and no step changes os.environ.
C8_ChildEnvironment ==
    /\ [](\A p \in Procs :
              Started(p) =>
                  /\ DOMAIN proc_env[p] =
                         DOMAIN environ[p] \cup {"ENVD_ANALYTICS", "GIT_LATEST_TAG"}
                  /\ proc_env[p]["ENVD_ANALYTICS"] = <<"f", "a", "l", "s", "e">>
                  /\ proc_env[p]["GIT_LATEST_TAG"] = <<"v", "2">>
                  /\ meta[p].GIT_TAG = <<"v", "2">>
                  /\ \A v \in DOMAIN environ[p] \ {"ENVD_ANALYTICS", "GIT_LATEST_TAG"} :
                         proc_env[p][v] = environ[p][v])
    /\ [][environ' = environ]_vars

\* The runner was started from an environment that had ENVD_ANALYTICS=true and
\* no GIT_LATEST_TAG: the child gets false, the tag and the same PATH.
C8_Witness ==
    \E p \in Procs :
        /\ Started(p)
        /\ environ[p]["ENVD_ANALYTICS"] = <<"t", "r", "u", "e">>
        /\ "GIT_LATEST_TAG" \notin DOMAIN environ[p]
        /\ proc_env[p]["ENVD_ANALYTICS"] = <<"f", "a", "l", "s", "e">>
        /\ proc_env[p]["GIT_LATEST_TAG"] = <<"v", "2">>
        /\ proc_env[p]["PATH"] = environ[p]["PATH"]

\* ------------------------------------------------------------------- C9
\* C9 as claimed: after a scan in which no directory refused access, every file that matches
\* e2e/**/*.go, does not match e2e/*/docs/*.go and is not named suite_test.go or
\* e2e_helper.go is in the list extract_files returned, once.
C9_OnlyNamedFilesDropped ==
    \A p \in Procs :
        (pc[p] = "extracted" /\ denied[p] = {}) =>
            \A f \in tree :
                (/\ GlobMatch(SplitPath(f), SplitPath(EXTRACT_GLOB_PATH))
                 /\ ~GlobMatch(SplitPath(f), SplitPath(EXCLUDE_GLOB_PATH))
                 /\ BaseName(f) /= SUITE_TEST_NAME
                 /\ BaseName(f) /= E2E_HELPER_NAME)
                    => Count(test_files[p], f) = 1

\* s ends with suffix, character by character from the end.
HasSuffix(s, suffix) ==
    /\ Len(s) >= Len(suffix)
    /\ \A k \in 1..Len(suffix) : s[Len(s) - Len(suffix) + k] = suffix[k]

\* C9, amended: the list extract_files returns holds, once each, exactly the
\* paths that match e2e/**/*.go, do not match e2e/*/docs/*.go, do not END WITH
\* suite_test.go or e2e_helper.go (v_suite_test.go is dropped too) and do not
\* lie below a directory that refused access during the scan.
C9_DropsBySuffix ==
    \A p \in Procs :
        pc[p] = "extracted" =>
            /\ Cardinality(Range(test_files[p])) = Len(test_files[p])
            /\ Range(test_files[p]) =
                   {f \in Entries(tree) :
                       /\ \A d \in denied[p] : ~Below(f, d)
                       /\ GlobMatch(SplitPath(f), SplitPath(EXTRACT_GLOB_PATH))
                       /\ ~GlobMatch(SplitPath(f), SplitPath(EXCLUDE_GLOB_PATH))
                       /\ ~HasSuffix(f, SUITE_TEST_NAME)
                       /\ ~HasSuffix(f, E2E_HELPER_NAME)}

\* extract_files has returned files from a tree it could list entirely that holds
\* e2e/v/v_suite_test.go and a file both at the root and under e2e/v.
C9_Witness ==
    \E p \in Procs :
        /\ pc[p] = "extracted"
        /\ denied[p] = {}
        /\ {File_vsuite, File_a, File_c} \subseteq tree
        /\ {File_a, File_c} \subseteq Range(test_files[p])
        /\ File_vsuite \notin Range(test_files[p])

\* ------------------------------------------------------------------ C10
\* C10: the command of a started runner holds one --focus-file per file of the
\* job's shard, in shard order (the k-th is the file at position
\* ci_index + (k-1) * ci_total), none of another job's shard; the runner is
\* started also when the shard is empty, with no focus filter.
C10_FocusIsTheShard ==
    \A p \in Procs :
        Started(p) =>
            LET F == test_files[p]
                i == ci[p].ci_index
                T == ci[p].ci_total
                n == Cardinality({q \in 0..(Len(F) - 1) : q % T = i})
                focus == cmd[p].focus
            IN  /\ Len(focus) = 2 * n
                /\ \A k \in 1..n :
                       /\ focus[2 * k - 1] = FOCUS_FILE
                       /\ focus[2 * k] = F[i + (k - 1) * T + 1]
                /\ \A j \in 0..(T - 1) :
                       j /= i => Range(FocusFiles(cmd[p])) \cap Range(DescRun(F, j, T)) = {}
                /\ Len(F) <= i => focus = <<>>
                /\ Count(children[p], GINKGO) = 1

\* Job 1 of 2 has started its runner with one file on disk: its shard is empty
\* and the command has no focus filter.
C10_Witness ==
    \E p \in Procs :
        /\ Started(p)
        /\ Len(test_files[p]) = 1
        /\ ci[p].ci_index = 1 /\ ci[p].ci_total = 2
        /\ cmd[p].focus = <<>>
        /\ children[p][Len(children[p])] = GINKGO

====
